---- MODULE Spec2Model ----
(***************************************************************************)
(* Model of the MCP tool servers of the repository:                        *)
(*   - MCP_RhinoCompute/server.py  (tools that forward to Rhino.Compute)   *)
(*   - MCP_RhinoCompute/helpers/helpers.py (path and file helpers)         *)
(*   - MCP1/server.py              (tools that forward to the NWS API)     *)
(*                                                                         *)
(* Python strings that are built by f-strings or join are sequences of     *)
(* tokens; a dict is a function from its keys to its values.  A call of an *)
(* external library (requests, compute_rhino3d, rhino3dm, os) either       *)
(* completes or raises; every such outcome is a nondeterministic choice.   *)
(***************************************************************************)
EXTENDS Integers, Sequences, FiniteSets, Bags, TLC

VARIABLES
    runs,       \* Rhino server: the bag of tool invocations, each its position and locals
    now,        \* Rhino server: wall clock, in ticks (sub-second resolution)
    disk,       \* Rhino server: the input files that exist
    outputsDir, \* Rhino server: whether <server>/outputs exists
    writes,     \* Rhino server: the bag of paths model.Write was called with
    w,          \* weather server: the tool invocation, its position and locals
    dec,        \* helpers: one call of decode_gh_output, its position and locals
    sv,         \* helpers: one call of save_3dm_file, its position and locals
    ui          \* UI: the Streamlit script, its position and session state

vars == <<runs, now, disk, outputsDir, writes, w, dec, sv, ui>>
rhinoVars == <<runs, now, disk, outputsDir, writes>>

----------------------------------------------------------------------------
(* Bounds of the model *)

MaxRuns == 2
MaxTicks == 2
TicksPerSecond == 2
MaxInputs == 1
MaxPeriods == 11
MaxLen == 3
MaxItems == 2
MaxObjects == 2
MaxServers == 2

----------------------------------------------------------------------------
(* Paths.  A path is a record: absolute or not, its directory components,  *)
(* and the stem and extension of its last component.                        *)

Path(abs, parts, stem, ext) == [abs |-> abs, parts |-> parts, stem |-> stem, ext |-> ext]

Cwd == <<"proj">>
ServerDir == <<"proj", "MCP_RhinoCompute">>

NoPath == Path(TRUE, <<>>, "", "")

GhA     == Path(TRUE,  <<"proj", "defs">>,  "wave", ".gh")
GhRel   == Path(FALSE, <<"defs">>,          "wave", ".gh")
GhGone  == Path(TRUE,  <<"proj", "defs">>,  "missing", ".gh")
Pointers == {GhA, GhRel, GhGone}

RhinoA    == Path(TRUE,  <<"proj", "models">>, "srf", ".3dm")
RhinoGone == Path(FALSE, <<"models">>,         "none", ".3dm")
RhinoPaths == {RhinoA, RhinoGone}

InputNames == <<"x", "y", "z">>
InputDicts == {SubSeq(InputNames, 1, n) : n \in 0..MaxInputs}

\* Contents File3dm.Read can give for a Rhino file: None, or its object table.
NoModel == [isNone |-> TRUE, Objects |-> <<>>]
Models == {NoModel,
           [isNone |-> FALSE, Objects |-> <<>>],
           [isNone |-> FALSE, Objects |-> <<"srf1">>],
           [isNone |-> FALSE, Objects |-> <<"srf1", "crv2">>]}

resolve_path(path) ==
    IF path.abs THEN path
    ELSE [path EXCEPT !.abs = TRUE, !.parts = Cwd \o path.parts]

\* os.path.abspath(os.path.join("assets", "WavePatternFromSurface.gh"))
WaveGhPath == resolve_path(Path(FALSE, <<"assets">>, "WavePatternFromSurface", ".gh"))

os_path_exists(path) == path \in disk

----------------------------------------------------------------------------
(* helpers/helpers.py *)

\* datetime.now().strftime("%Y%m%d_%H%M%S"): the clock cut to whole seconds.
strftime(t) == t \div TicksPerSecond

\* The path create_file_path builds for a pointer at clock value t:
\* <dirname(dirname(__file__))>/outputs/<base_name>_<timestamp>.3dm
create_file_path(pointer, t) ==
    [dir  |-> ServerDir \o <<"outputs">>,
     name |-> <<pointer.stem, "_", strftime(t), ".3dm">>]

NoOutput == [dir |-> <<>>, name |-> <<>>]

\* gh.DataTree(input_name) with one branch {0} holding [input_value]
add_parameter(input_name, input_value) ==
    [ParamName |-> input_name, path |-> <<0>>, items |-> <<input_value>>]

\* The helper calls and the UI script before they start
IdleDecode == [pc |-> "idle"]
IdleSave == [pc |-> "idle"]
IdleUi == [pc |-> "idle"]

----------------------------------------------------------------------------
(* MCP_RhinoCompute/server.py: results and the state of one invocation *)

NoResult == [pending |-> TRUE]
NoBody == [k \in {} |-> <<>>]

Str(s) == <<"str", s>>
PyNone == <<"None">>
PyList == <<"list">>
Json(v) == <<"json", v>>

JsonBodies == {"bodyA", "bodyB"}

IoKeys == {"Description", "Inputs", "Outputs", "Icon"}
\* The JSON objects /io can answer with: any subset of the four keys.
IoBodies == {[k \in K |-> Json(k)] : K \in SUBSET IoKeys}

\* As dict_get, with the default dropped: dict.get(key)
dict_get_no_default(data, key, default) == IF key \in DOMAIN data THEN data[key] ELSE PyNone

\* dict.get(key, default)
dict_get(data, key, default) == IF key \in DOMAIN data THEN data[key] ELSE default

\* The invocation inv moves to its next position.
Step(inv, next) == (runs (-) SetToBag({inv})) (+) SetToBag({next})

IdleRun ==
    [tool |-> "none", pc |-> "idle", pointer |-> NoPath, inputs |-> <<>>,
     gh_inputs |-> <<>>, model |-> NoModel, geometry |-> "", evals |-> <<>>, body |-> NoBody,
     output_path |-> NoOutput, raised |-> "", result |-> NoResult, trace |-> <<>>]

ErrContact(e)  == [error |-> <<"Failed to contact Rhino.Compute: ", e>>]
ErrRunGh(e)    == [error |-> <<"Failed to run Grasshopper definition: ", e>>]
ErrWave(e)     == [error |-> <<"Failed to run wave pattern tool: ", e>>]
ErrGhMissing(p)    == [error |-> <<"Grasshopper file not found: '", p, "'">>]
ErrRhinoMissing(p) == [error |-> <<"Rhino file not found: '", p, "'">>]
ErrWaveGhMissing(p) == [error |-> <<"Grasshopper file not found at '", p, "'">>]
ErrNoGeometry(p)   == [error |-> <<"Could not read geometry from '", p, "'">>]

\* GET version: requests.get, then response.json(), both inside the try.
get_rhinocompute_version_details(inv) ==
    /\ inv.pc = "idle"
    /\ \E outcome \in {"ConnectionError", "JSONDecodeError", "ok"} :
       \E body \in JsonBodies :
          runs' = Step(inv,
                    [inv EXCEPT
                       !.tool = "get_rhinocompute_version_details",
                       !.pc = "done",
                       !.body = IF outcome = "ok" THEN [json |-> Json(body)] ELSE NoBody,
                       !.trace = IF outcome = "ConnectionError"
                                 THEN <<"requests.get">>
                                 ELSE <<"requests.get", "response.json">>,
                       !.result = IF outcome = "ok"
                                  THEN [status |-> "success", version_info |-> Json(body)]
                                  ELSE ErrContact(outcome),
                       !.raised = IF outcome = "ok" THEN "" ELSE outcome])
    /\ UNCHANGED <<now, disk, outputsDir, writes, w, dec, sv, ui>>

\* GET plugins/rhino/installed: requests.get, then response.json(), both inside the try.
get_installed_rhino_plugins(inv) ==
    /\ inv.pc = "idle"
    /\ \E outcome \in {"ConnectionError", "JSONDecodeError", "ok"} :
       \E body \in JsonBodies :
          runs' = Step(inv,
                    [inv EXCEPT
                       !.tool = "get_installed_rhino_plugins",
                       !.pc = "done",
                       !.body = IF outcome = "ok" THEN [json |-> Json(body)] ELSE NoBody,
                       !.trace = IF outcome = "ConnectionError"
                                 THEN <<"requests.get">>
                                 ELSE <<"requests.get", "response.json">>,
                       !.result = IF outcome = "ok"
                                  THEN [status |-> "success", plugins |-> Json(body)]
                                  ELSE ErrContact(outcome),
                       !.raised = IF outcome = "ok" THEN "" ELSE outcome])
    /\ UNCHANGED <<now, disk, outputsDir, writes, w, dec, sv, ui>>

\* As get_installed_grasshopper_plugins, with response.json() outside the try
get_installed_grasshopper_plugins_json_outside_try(inv) ==
    /\ inv.pc = "idle"
    /\ \E outcome \in {"ConnectionError", "JSONDecodeError", "ok"} :
       \E body \in JsonBodies :
          runs' = Step(inv,
                    [inv EXCEPT
                       !.tool = "get_installed_grasshopper_plugins",
                       !.pc = "done",
                       !.body = IF outcome = "ok" THEN [json |-> Json(body)] ELSE NoBody,
                       !.trace = IF outcome = "ConnectionError"
                                 THEN <<"requests.get">>
                                 ELSE <<"requests.get", "response.json">>,
                       !.result = IF outcome = "ok"
                                  THEN [status |-> "success", plugins |-> Json(body)]
                                  ELSE IF outcome = "JSONDecodeError"
                                  THEN [raised |-> outcome]
                                  ELSE ErrContact(outcome),
                       !.raised = IF outcome = "ok" THEN "" ELSE outcome])
    /\ UNCHANGED <<now, disk, outputsDir, writes, w, dec, sv, ui>>

\* GET plugins/gh/installed: requests.get, then response.json(), both inside the try.
get_installed_grasshopper_plugins(inv) ==
    /\ inv.pc = "idle"
    /\ \E outcome \in {"ConnectionError", "JSONDecodeError", "ok"} :
       \E body \in JsonBodies :
          runs' = Step(inv,
                    [inv EXCEPT
                       !.tool = "get_installed_grasshopper_plugins",
                       !.pc = "done",
                       !.body = IF outcome = "ok" THEN [json |-> Json(body)] ELSE NoBody,
                       !.trace = IF outcome = "ConnectionError"
                                 THEN <<"requests.get">>
                                 ELSE <<"requests.get", "response.json">>,
                       !.result = IF outcome = "ok"
                                  THEN [status |-> "success", plugins |-> Json(body)]
                                  ELSE ErrContact(outcome),
                       !.raised = IF outcome = "ok" THEN "" ELSE outcome])
    /\ UNCHANGED <<now, disk, outputsDir, writes, w, dec, sv, ui>>

read_grasshopper_inputs_outputs(inv) ==
    /\ inv.pc = "idle"
    /\ \E arg \in Pointers :
       LET pointer == resolve_path(arg) IN
       IF ~os_path_exists(pointer)
       THEN runs' = Step(inv,
                      [inv EXCEPT !.tool = "read_grasshopper_inputs_outputs",
                                !.pointer = pointer,
                                !.pc = "done",
                                !.result = ErrGhMissing(pointer)])
       ELSE \E outcome \in {"ConnectionError", "JSONDecodeError", "AttributeError", "ok"} :
            \E data \in IoBodies :
               runs' = Step(inv,
                         [inv EXCEPT
                            !.tool = "read_grasshopper_inputs_outputs",
                            !.pointer = pointer,
                            !.pc = "done",
                            !.body = IF outcome = "ok" THEN data ELSE NoBody,
                            !.trace = IF outcome = "ConnectionError"
                                      THEN <<"requests.post">>
                                      ELSE <<"requests.post", "response.json">>,
                            !.result =
                               IF outcome = "ok"
                               THEN [status |-> "success",
                                     path |-> pointer,
                                     description |-> dict_get(data, "Description",
                                                        Str("Grasshopper definition")),
                                     inputs  |-> dict_get(data, "Inputs", PyList),
                                     outputs |-> dict_get(data, "Outputs", PyList),
                                     icon    |-> dict_get(data, "Icon", PyNone)]
                               ELSE ErrContact(outcome),
                       !.raised = IF outcome = "ok" THEN "" ELSE outcome])
    /\ UNCHANGED <<now, disk, outputsDir, writes, w, dec, sv, ui>>

----------------------------------------------------------------------------
(* run_grasshopper_tool, one action per call it makes *)

\* As run_grasshopper_tool_begin, without the os.path.exists check
run_grasshopper_tool_begin_unchecked(inv) ==
    /\ inv.pc = "idle"
    /\ \E arg \in Pointers, inputs \in InputDicts :
       LET pointer == resolve_path(arg) IN
       runs' = Step(inv,
                 [inv EXCEPT !.tool = "run_grasshopper_tool",
                             !.pointer = pointer,
                             !.inputs = inputs,
                             !.pc = "inputs"])
    /\ UNCHANGED <<now, disk, outputsDir, writes, w, dec, sv, ui>>

\* resolve_path, os.path.exists, and the early return
run_grasshopper_tool_begin(inv) ==
    /\ inv.pc = "idle"
    /\ \E arg \in Pointers, inputs \in InputDicts :
       LET pointer == resolve_path(arg) IN
       runs' = Step(inv,
                 IF ~os_path_exists(pointer)
                 THEN [inv EXCEPT !.tool = "run_grasshopper_tool",
                                !.pointer = pointer,
                                !.inputs = inputs,
                                !.pc = "done",
                                !.result = ErrGhMissing(pointer)]
                 ELSE [inv EXCEPT !.tool = "run_grasshopper_tool",
                                !.pointer = pointer,
                                !.inputs = inputs,
                                !.pc = "inputs"])
    /\ UNCHANGED <<now, disk, outputsDir, writes, w, dec, sv, ui>>

\* one turn of "for name, value in inputs.items()"
run_grasshopper_tool_add_parameter(inv) ==
    /\ inv.tool = "run_grasshopper_tool"
    /\ inv.pc = "inputs"
    /\ Len(inv.gh_inputs) < Len(inv.inputs)
    /\ LET name == inv.inputs[Len(inv.gh_inputs) + 1] IN
       \E ok \in BOOLEAN :
          runs' = Step(inv,
                    IF ok
                    THEN [inv EXCEPT !.trace = Append(@, "add_parameter"),
                                   !.gh_inputs = Append(@, add_parameter(name, Json(name)))]
                    ELSE [inv EXCEPT !.trace = Append(@, "add_parameter"),
                                   !.pc = "done",
                                   !.raised = "add_parameter",
                                   !.result = ErrRunGh("add_parameter")])
    /\ UNCHANGED <<now, disk, outputsDir, writes, w, dec, sv, ui>>

\* As run_grasshopper_tool_evaluate, with the file path created before decoding
run_grasshopper_tool_evaluate_then_path(inv) ==
    /\ inv.tool = "run_grasshopper_tool"
    /\ inv.pc = "inputs"
    /\ Len(inv.gh_inputs) = Len(inv.inputs)
    /\ \E ok \in BOOLEAN :
          runs' = Step(inv,
                    IF ok
                    THEN [inv EXCEPT !.trace = Append(@, "EvaluateDefinition"),
                                   !.evals = Append(@, [pointer |-> inv.pointer,
                                                        gh_inputs |-> inv.gh_inputs]),
                                   !.pc = "path"]
                    ELSE [inv EXCEPT !.trace = Append(@, "EvaluateDefinition"),
                                   !.evals = Append(@, [pointer |-> inv.pointer,
                                                        gh_inputs |-> inv.gh_inputs]),
                                   !.pc = "done",
                                   !.raised = "EvaluateDefinition",
                                   !.result = ErrRunGh("EvaluateDefinition")])
    /\ UNCHANGED <<now, disk, outputsDir, writes, w, dec, sv, ui>>

\* output = gh.EvaluateDefinition(pointer, gh_inputs)
run_grasshopper_tool_evaluate(inv) ==
    /\ inv.tool = "run_grasshopper_tool"
    /\ inv.pc = "inputs"
    /\ Len(inv.gh_inputs) = Len(inv.inputs)
    /\ \E ok \in BOOLEAN :
          runs' = Step(inv,
                    IF ok
                    THEN [inv EXCEPT !.trace = Append(@, "EvaluateDefinition"),
                                   !.evals = Append(@, [pointer |-> inv.pointer,
                                                        gh_inputs |-> inv.gh_inputs]),
                                   !.pc = "decode"]
                    ELSE [inv EXCEPT !.trace = Append(@, "EvaluateDefinition"),
                                   !.evals = Append(@, [pointer |-> inv.pointer,
                                                        gh_inputs |-> inv.gh_inputs]),
                                   !.pc = "done",
                                   !.raised = "EvaluateDefinition",
                                   !.result = ErrRunGh("EvaluateDefinition")])
    /\ UNCHANGED <<now, disk, outputsDir, writes, w, dec, sv, ui>>

\* decoded = decode_gh_output(output)
run_grasshopper_tool_decode(inv) ==
    /\ inv.tool = "run_grasshopper_tool"
    /\ inv.pc = "decode"
    /\ \E ok \in BOOLEAN :
          runs' = Step(inv,
                    IF ok
                    THEN [inv EXCEPT !.trace = Append(@, "decode_gh_output"),
                                   !.pc = "path"]
                    ELSE [inv EXCEPT !.trace = Append(@, "decode_gh_output"),
                                   !.pc = "done",
                                   !.raised = "decode_gh_output",
                                   !.result = ErrRunGh("decode_gh_output")])
    /\ UNCHANGED <<now, disk, outputsDir, writes, w, dec, sv, ui>>

\* output_path = create_file_path(pointer); os.makedirs may raise
run_grasshopper_tool_create_file_path(inv) ==
    /\ inv.tool = "run_grasshopper_tool"
    /\ inv.pc = "path"
    /\ \E ok \in BOOLEAN :
          /\ runs' = Step(inv,
                       IF ok
                       THEN [inv EXCEPT !.trace = Append(@, "create_file_path"),
                                      !.output_path = create_file_path(inv.pointer, now),
                                      !.pc = "save"]
                       ELSE [inv EXCEPT !.trace = Append(@, "create_file_path"),
                                      !.pc = "done",
                                      !.raised = "create_file_path",
                                   !.result = ErrRunGh("create_file_path")])
          /\ outputsDir' = (outputsDir \/ ok)
    /\ UNCHANGED <<now, disk, writes, w, dec, sv, ui>>

\* save_3dm_file(decoded, output_path), then the success dict
run_grasshopper_tool_save(inv) ==
    /\ inv.tool = "run_grasshopper_tool"
    /\ inv.pc = "save"
    /\ \E ok \in BOOLEAN :
          /\ runs' = Step(inv,
                       IF ok
                       THEN [inv EXCEPT !.trace = Append(@, "save_3dm_file"),
                                      !.pc = "done",
                                      !.result = [status |-> "success",
                                                  pointer |-> inv.pointer,
                                                  output_file |-> inv.output_path]]
                       ELSE [inv EXCEPT !.trace = Append(@, "save_3dm_file"),
                                      !.pc = "done",
                                      !.raised = "save_3dm_file",
                                   !.result = ErrRunGh("save_3dm_file")])
          /\ writes' = IF ok THEN writes (+) SetToBag({inv.output_path}) ELSE writes
    /\ UNCHANGED <<now, disk, outputsDir, w, dec, sv, ui>>

----------------------------------------------------------------------------
(* run_wave_pattern_from_surface, one action per call it makes *)

\* As run_wave_pattern_from_surface_begin, with the two checks in the other order
run_wave_pattern_from_surface_begin_swapped(inv) ==
    /\ inv.pc = "idle"
    /\ \E arg \in RhinoPaths :
       LET path == resolve_path(arg)
           gh_path == WaveGhPath IN
       runs' = Step(inv,
                 IF ~os_path_exists(gh_path)
                 THEN [inv EXCEPT !.tool = "run_wave_pattern_from_surface",
                                !.pointer = path,
                                !.pc = "done",
                                !.result = ErrWaveGhMissing(gh_path)]
                 ELSE IF ~os_path_exists(path)
                 THEN [inv EXCEPT !.tool = "run_wave_pattern_from_surface",
                                !.pointer = path,
                                !.pc = "done",
                                !.result = ErrRhinoMissing(path)]
                 ELSE [inv EXCEPT !.tool = "run_wave_pattern_from_surface",
                                !.pointer = path,
                                !.pc = "read"])
    /\ UNCHANGED <<now, disk, outputsDir, writes, w, dec, sv, ui>>

\* resolve_path, the two os.path.exists checks and their early returns
run_wave_pattern_from_surface_begin(inv) ==
    /\ inv.pc = "idle"
    /\ \E arg \in RhinoPaths :
       LET path == resolve_path(arg)
           gh_path == WaveGhPath IN
       runs' = Step(inv,
                 IF ~os_path_exists(path)
                 THEN [inv EXCEPT !.tool = "run_wave_pattern_from_surface",
                                !.pointer = path,
                                !.pc = "done",
                                !.result = ErrRhinoMissing(path)]
                 ELSE IF ~os_path_exists(gh_path)
                 THEN [inv EXCEPT !.tool = "run_wave_pattern_from_surface",
                                !.pointer = path,
                                !.pc = "done",
                                !.result = ErrWaveGhMissing(gh_path)]
                 ELSE [inv EXCEPT !.tool = "run_wave_pattern_from_surface",
                                !.pointer = path,
                                !.pc = "read"])
    /\ UNCHANGED <<now, disk, outputsDir, writes, w, dec, sv, ui>>

\* model = rhino3dm.File3dm.Read(path); the None / empty check;
\* geometry = model.Objects[0].Geometry
run_wave_pattern_from_surface_read(inv) ==
    /\ inv.tool = "run_wave_pattern_from_surface"
    /\ inv.pc = "read"
    /\ \/ \E model \in Models :
            runs' = Step(inv,
                      IF model.isNone \/ Len(model.Objects) = 0
                      THEN [inv EXCEPT !.trace = Append(@, "File3dm.Read"),
                                     !.model = model,
                                     !.pc = "done",
                                     !.result = ErrNoGeometry(inv.pointer)]
                      ELSE [inv EXCEPT !.trace = Append(@, "File3dm.Read"),
                                     !.model = model,
                                     !.geometry = model.Objects[1],
                                     !.pc = "encode"])
       \/ runs' = Step(inv,
                    [inv EXCEPT !.trace = Append(@, "File3dm.Read"),
                              !.pc = "done",
                              !.raised = "File3dm.Read",
                                   !.result = ErrWave("File3dm.Read")])
    /\ UNCHANGED <<now, disk, outputsDir, writes, w, dec, sv, ui>>

\* encoded_geo = json.dumps(geometry.Encode());
\* gh_inputs = [add_parameter("surface", encoded_geo)]
run_wave_pattern_from_surface_add_parameter(inv) ==
    /\ inv.tool = "run_wave_pattern_from_surface"
    /\ inv.pc = "encode"
    /\ \E ok \in BOOLEAN :
          runs' = Step(inv,
                    IF ok
                    THEN [inv EXCEPT !.trace = Append(@, "add_parameter"),
                                   !.gh_inputs =
                                      <<add_parameter("surface", Json(inv.geometry))>>,
                                   !.pc = "evaluate"]
                    ELSE [inv EXCEPT !.trace = Append(@, "add_parameter"),
                                   !.pc = "done",
                                   !.raised = "add_parameter",
                                   !.result = ErrWave("add_parameter")])
    /\ UNCHANGED <<now, disk, outputsDir, writes, w, dec, sv, ui>>

\* output = gh.EvaluateDefinition(gh_path, gh_inputs)
run_wave_pattern_from_surface_evaluate(inv) ==
    /\ inv.tool = "run_wave_pattern_from_surface"
    /\ inv.pc = "evaluate"
    /\ \E ok \in BOOLEAN :
          runs' = Step(inv,
                    IF ok
                    THEN [inv EXCEPT !.trace = Append(@, "EvaluateDefinition"),
                                   !.evals = Append(@, [pointer |-> WaveGhPath,
                                                        gh_inputs |-> inv.gh_inputs]),
                                   !.pc = "decode"]
                    ELSE [inv EXCEPT !.trace = Append(@, "EvaluateDefinition"),
                                   !.evals = Append(@, [pointer |-> WaveGhPath,
                                                        gh_inputs |-> inv.gh_inputs]),
                                   !.pc = "done",
                                   !.raised = "EvaluateDefinition",
                                   !.result = ErrWave("EvaluateDefinition")])
    /\ UNCHANGED <<now, disk, outputsDir, writes, w, dec, sv, ui>>

\* decoded = decode_gh_output(output)
run_wave_pattern_from_surface_decode(inv) ==
    /\ inv.tool = "run_wave_pattern_from_surface"
    /\ inv.pc = "decode"
    /\ \E ok \in BOOLEAN :
          runs' = Step(inv,
                    IF ok
                    THEN [inv EXCEPT !.trace = Append(@, "decode_gh_output"),
                                   !.pc = "path"]
                    ELSE [inv EXCEPT !.trace = Append(@, "decode_gh_output"),
                                   !.pc = "done",
                                   !.raised = "decode_gh_output",
                                   !.result = ErrWave("decode_gh_output")])
    /\ UNCHANGED <<now, disk, outputsDir, writes, w, dec, sv, ui>>

\* output_path = create_file_path(gh_path); os.makedirs may raise
run_wave_pattern_from_surface_create_file_path(inv) ==
    /\ inv.tool = "run_wave_pattern_from_surface"
    /\ inv.pc = "path"
    /\ \E ok \in BOOLEAN :
          /\ runs' = Step(inv,
                       IF ok
                       THEN [inv EXCEPT !.trace = Append(@, "create_file_path"),
                                      !.output_path = create_file_path(WaveGhPath, now),
                                      !.pc = "save"]
                       ELSE [inv EXCEPT !.trace = Append(@, "create_file_path"),
                                      !.pc = "done",
                                      !.raised = "create_file_path",
                                   !.result = ErrWave("create_file_path")])
          /\ outputsDir' = (outputsDir \/ ok)
    /\ UNCHANGED <<now, disk, writes, w, dec, sv, ui>>

\* save_3dm_file(decoded, output_path), then the success dict
run_wave_pattern_from_surface_save(inv) ==
    /\ inv.tool = "run_wave_pattern_from_surface"
    /\ inv.pc = "save"
    /\ \E ok \in BOOLEAN :
          /\ runs' = Step(inv,
                       IF ok
                       THEN [inv EXCEPT !.trace = Append(@, "save_3dm_file"),
                                      !.pc = "done",
                                      !.result = [status |-> "success",
                                                  output_file |-> inv.output_path]]
                       ELSE [inv EXCEPT !.trace = Append(@, "save_3dm_file"),
                                      !.pc = "done",
                                      !.raised = "save_3dm_file",
                                   !.result = ErrWave("save_3dm_file")])
          /\ writes' = IF ok THEN writes (+) SetToBag({inv.output_path}) ELSE writes
    /\ UNCHANGED <<now, disk, outputsDir, w, dec, sv, ui>>

----------------------------------------------------------------------------
(* MCP1/server.py: the weather server *)

EmptyDict == [k \in {} |-> <<>>]

\* What one GET can come to: requests.get raises (error), or a response with
\* a status code and a body that parses as JSON or does not.
Response(error, status_code, is_json, body) ==
    [error |-> error, status_code |-> status_code, is_json |-> is_json, body |-> body]

Responses(bodies) ==
    {Response(e, 0, FALSE, EmptyDict) : e \in {"ConnectionError", "Timeout"}}
    \cup {Response("", c, FALSE, EmptyDict) : c \in {404, 500}}
    \cup {Response("", 200, FALSE, EmptyDict)}
    \cup {Response("", 200, TRUE, b) : b \in bodies}

\* The value of a call: an exception that propagates, None, or a dict.
Raise(exc)  == [raised |-> exc, none |-> FALSE, data |-> EmptyDict]
ReturnNone  == [raised |-> "",  none |-> TRUE,  data |-> EmptyDict]
Return(d)   == [raised |-> "",  none |-> FALSE, data |-> d]

make_nws_request(response) ==
    IF response.error # "" THEN Raise(response.error)
    ELSE IF response.status_code = 200
         THEN IF response.is_json THEN Return(response.body)
              ELSE Raise("JSONDecodeError")
         ELSE ReturnNone

\* Python's "not v" for a value that is None or a dict
Falsy(v) == v.none \/ DOMAIN v.data = {}

PeriodNames == {"Today", "Tonight"}
Period(name) ==
    [name |-> name, temperature |-> "72", temperatureUnit |-> "F",
     windSpeed |-> "5 mph", windDirection |-> "N", detailedForecast |-> "Sunny"]
PeriodLists == UNION {[1..n -> {Period(m) : m \in PeriodNames}] : n \in 0..MaxPeriods}

PointsBodies ==
    {EmptyDict,
     [title |-> "no properties"],
     [properties |-> [forecast |-> "forecast_url",
                      observationStations |-> "stations_url"]]}

ForecastBodies ==
    {EmptyDict, [title |-> "no properties"]} \cup {[properties |-> [periods |-> ps]] : ps \in PeriodLists}

Station(id) == [properties |-> [stationIdentifier |-> id]]
StationsBodies ==
    {EmptyDict,
     [title |-> "no features"],
     [features |-> <<>>],
     [features |-> <<Station("KNYC")>>],
     [features |-> <<Station("KJFK"), Station("KNYC")>>]}

\* A temperature reading, in tenths of a degree Celsius, or null.
Reading(none, tenths) == [none |-> none, tenths |-> tenths]
ObservationBodies ==
    {EmptyDict, [title |-> "no properties"]}
    \cup {[properties |-> [temperature |-> [value |-> t],
                           textDescription |-> "Clear"]] :
            t \in {Reading(TRUE, 0), Reading(FALSE, 0), Reading(FALSE, 205)}}

ForecastLimit == 10
Separator == "\n---\n"

Min(a, b) == IF a < b THEN a ELSE b

\* As FirstPeriods, without the slice: every period
FirstPeriods_unsliced(periods) == periods

\* periods[:10]
FirstPeriods(periods) == SubSeq(periods, 1, Min(Len(periods), ForecastLimit))

\* The f-string of one period ("deg" stands for the degree sign)
FormatPeriod(period) ==
    <<"\n", period.name, ":\nTemperature: ", period.temperature, "deg",
      period.temperatureUnit, "\nWind: ", period.windSpeed, " ",
      period.windDirection, "\nForecast: ", period.detailedForecast, "\n">>

\* sep.join(strings)
RECURSIVE Join(_, _)
Join(sep, strings) ==
    IF Len(strings) = 0 THEN <<>>
    ELSE IF Len(strings) = 1 THEN strings[1]
    ELSE strings[1] \o <<sep>> \o Join(sep, Tail(strings))

\* f"{x:.1f}" of a number given in tenths
Format1f(tenths) == <<tenths \div 10, ".", tenths % 10>>

Returned(text) == [kind |-> "return", text |-> text, exc |-> ""]
Raised(exc)    == [kind |-> "raise",  text |-> <<>>, exc |-> exc]
Pending        == [kind |-> "none",   text |-> <<>>, exc |-> ""]

IdleWeather ==
    [pc |-> "idle", tool |-> "none", sent |-> <<>>, got |-> <<>>,
     url |-> "", result |-> Pending]

Request(stage, url) == [stage |-> stage, url |-> url]

\* The invocation after one more make_nws_request(url) that met `response`
Requested(stage, url, response) ==
    [w EXCEPT !.sent = Append(@, Request(stage, url)), !.got = Append(@, response)]

\* get_forecast: the points request and what follows it up to the next request
get_forecast_points ==
    /\ w.pc = "idle"
    /\ \E response \in Responses(PointsBodies) :
       LET points_data == make_nws_request(response)
           called == [Requested("points", "points_url", response)
                        EXCEPT !.tool = "get_forecast"] IN
       w' = IF points_data.raised # ""
            THEN [called EXCEPT !.pc = "done", !.result = Raised(points_data.raised)]
            ELSE IF Falsy(points_data)
            THEN [called EXCEPT !.pc = "done",
                     !.result = Returned(<<"Unable to fetch forecast data for this location.">>)]
            ELSE IF "properties" \notin DOMAIN points_data.data
            THEN [called EXCEPT !.pc = "done", !.result = Raised("KeyError")]
            ELSE [called EXCEPT !.pc = "forecast",
                                !.url = points_data.data.properties.forecast]
    /\ UNCHANGED <<rhinoVars, dec, sv, ui>>

\* get_forecast: the forecast request and the formatting of its periods
get_forecast_forecast ==
    /\ w.tool = "get_forecast"
    /\ w.pc = "forecast"
    /\ \E response \in Responses(ForecastBodies) :
       LET forecast_data == make_nws_request(response)
           called == Requested("forecast", w.url, response) IN
       w' = IF forecast_data.raised # ""
            THEN [called EXCEPT !.pc = "done", !.result = Raised(forecast_data.raised)]
            ELSE IF Falsy(forecast_data)
            THEN [called EXCEPT !.pc = "done",
                     !.result = Returned(<<"Unable to fetch detailed forecast.">>)]
            ELSE IF "properties" \notin DOMAIN forecast_data.data
            THEN [called EXCEPT !.pc = "done", !.result = Raised("KeyError")]
            ELSE LET periods == forecast_data.data.properties.periods
                     shown == FirstPeriods(periods)
                     forecasts == [i \in 1..Len(shown) |-> FormatPeriod(shown[i])] IN
                 [called EXCEPT !.pc = "done",
                                !.result = Returned(Join(Separator, forecasts))]
    /\ UNCHANGED <<rhinoVars, dec, sv, ui>>

\* get_current_weather: the points request
get_current_weather_points ==
    /\ w.pc = "idle"
    /\ \E response \in Responses(PointsBodies) :
       LET points_data == make_nws_request(response)
           called == [Requested("points", "points_url", response)
                        EXCEPT !.tool = "get_current_weather"] IN
       w' = IF points_data.raised # ""
            THEN [called EXCEPT !.pc = "done", !.result = Raised(points_data.raised)]
            ELSE IF Falsy(points_data)
            THEN [called EXCEPT !.pc = "done",
                     !.result = Returned(<<"Unable to fetch weather data for this location.">>)]
            ELSE IF "properties" \notin DOMAIN points_data.data
            THEN [called EXCEPT !.pc = "done", !.result = Raised("KeyError")]
            ELSE [called EXCEPT !.pc = "stations",
                                !.url = points_data.data.properties.observationStations]
    /\ UNCHANGED <<rhinoVars, dec, sv, ui>>

\* As get_current_weather_stations, going on after a stations request that
\* returned None
get_current_weather_stations_unchecked ==
    /\ w.tool = "get_current_weather"
    /\ w.pc = "stations"
    /\ \E response \in Responses(StationsBodies) :
       LET stations_data == make_nws_request(response)
           called == Requested("stations", w.url, response) IN
       w' = IF stations_data.raised # ""
            THEN [called EXCEPT !.pc = "done", !.result = Raised(stations_data.raised)]
            ELSE IF stations_data.none
            THEN [called EXCEPT !.pc = "observation", !.url = ""]
            ELSE IF \/ Falsy(stations_data)
                    \/ "features" \notin DOMAIN stations_data.data
                    \/ Len(stations_data.data.features) = 0
            THEN [called EXCEPT !.pc = "done",
                     !.result = Returned(<<"Unable to find nearby weather stations.">>)]
            ELSE [called EXCEPT !.pc = "observation",
                     !.url = stations_data.data.features[1].properties.stationIdentifier]
    /\ UNCHANGED <<rhinoVars, dec, sv, ui>>

\* get_current_weather: the observation stations request
get_current_weather_stations ==
    /\ w.tool = "get_current_weather"
    /\ w.pc = "stations"
    /\ \E response \in Responses(StationsBodies) :
       LET stations_data == make_nws_request(response)
           called == Requested("stations", w.url, response) IN
       w' = IF stations_data.raised # ""
            THEN [called EXCEPT !.pc = "done", !.result = Raised(stations_data.raised)]
            ELSE IF \/ Falsy(stations_data)
                    \/ "features" \notin DOMAIN stations_data.data
                    \/ Len(stations_data.data.features) = 0
            THEN [called EXCEPT !.pc = "done",
                     !.result = Returned(<<"Unable to find nearby weather stations.">>)]
            ELSE [called EXCEPT !.pc = "observation",
                     !.url = stations_data.data.features[1].properties.stationIdentifier]
    /\ UNCHANGED <<rhinoVars, dec, sv, ui>>

\* get_current_weather: the latest observation request and its formatting
get_current_weather_observation ==
    /\ w.tool = "get_current_weather"
    /\ w.pc = "observation"
    /\ \E response \in Responses(ObservationBodies) :
       LET observation_data == make_nws_request(response)
           called == Requested("observation", w.url, response) IN
       w' = IF observation_data.raised # ""
            THEN [called EXCEPT !.pc = "done", !.result = Raised(observation_data.raised)]
            ELSE IF Falsy(observation_data)
            THEN [called EXCEPT !.pc = "done",
                     !.result = Returned(<<"Unable to fetch current observations.">>)]
            ELSE IF "properties" \notin DOMAIN observation_data.data
            THEN [called EXCEPT !.pc = "done", !.result = Raised("KeyError")]
            ELSE LET props == observation_data.data.properties
                     temp_c == props.temperature.value IN
                 \* temp_f stays None when temp_c is None or 0, and "{:.1f}"
                 \* of None raises TypeError
                 IF temp_c.none \/ temp_c.tenths = 0
                 THEN [called EXCEPT !.pc = "done", !.result = Raised("TypeError")]
                 ELSE LET temp_f == (temp_c.tenths * 9) \div 5 + 320 IN
                      [called EXCEPT !.pc = "done",
                         !.result = Returned(
                            <<"Current Weather Conditions:\nDescription: ",
                              props.textDescription, "\nTemperature: ">>
                            \o Format1f(temp_c.tenths) \o <<"degC (">>
                            \o Format1f(temp_f)
                            \o <<"degF)\nHumidity: ", "None", "%\nWind Speed: ", "None",
                                 " m/s\nWind Direction: ", "None", "deg">>)]
    /\ UNCHANGED <<rhinoVars, dec, sv, ui>>

\* sampling_analyze_weather_trends: the points request
sampling_analyze_weather_trends_points ==
    /\ w.pc = "idle"
    /\ \E response \in Responses(PointsBodies) :
       LET points_data == make_nws_request(response)
           called == [Requested("points", "points_url", response)
                        EXCEPT !.tool = "sampling_analyze_weather_trends"] IN
       w' = IF points_data.raised # ""
            THEN [called EXCEPT !.pc = "done", !.result = Raised(points_data.raised)]
            ELSE IF Falsy(points_data)
            THEN [called EXCEPT !.pc = "done",
                     !.result = Returned(<<"Unable to fetch forecast data for this location.">>)]
            ELSE IF "properties" \notin DOMAIN points_data.data
            THEN [called EXCEPT !.pc = "done", !.result = Raised("KeyError")]
            ELSE [called EXCEPT !.pc = "forecast",
                                !.url = points_data.data.properties.forecast]
    /\ UNCHANGED <<rhinoVars, dec, sv, ui>>

\* sampling_analyze_weather_trends: the forecast request; None is not checked
sampling_analyze_weather_trends_forecast ==
    /\ w.tool = "sampling_analyze_weather_trends"
    /\ w.pc = "forecast"
    /\ \E response \in Responses(ForecastBodies) :
       LET forecast_data == make_nws_request(response)
           called == Requested("forecast", w.url, response) IN
       w' = IF forecast_data.raised # ""
            THEN [called EXCEPT !.pc = "done", !.result = Raised(forecast_data.raised)]
            ELSE [called EXCEPT !.pc = "sample"]
    /\ UNCHANGED <<rhinoVars, dec, sv, ui>>

\* sampling_analyze_weather_trends: await ctx.sample(...), return response.text
sampling_analyze_weather_trends_sample ==
    /\ w.tool = "sampling_analyze_weather_trends"
    /\ w.pc = "sample"
    /\ \E ok \in BOOLEAN :
       w' = [w EXCEPT !.pc = "done",
                      !.result = IF ok THEN Returned(<<"response.text">>)
                                 ELSE Raised("McpError")]
    /\ UNCHANGED <<rhinoVars, dec, sv, ui>>

----------------------------------------------------------------------------
(* The Rhino.Compute server *)

\* The wall clock advances between any two steps.
Tick ==
    /\ now < MaxTicks
    /\ now' = now + 1
    /\ UNCHANGED <<runs, disk, outputsDir, writes, w, dec, sv, ui>>

BaseFiles == {GhA, RhinoA}

RhinoInit ==
    /\ runs = [i \in {IdleRun} |-> MaxRuns]
    /\ now = 0
    /\ disk \in {BaseFiles, BaseFiles \cup {WaveGhPath}}
    /\ outputsDir = FALSE
    /\ writes = EmptyBag
    /\ w = IdleWeather
    /\ dec = IdleDecode
    /\ sv = IdleSave
    /\ ui = IdleUi

RhinoNext ==
    \/ Tick
    \/ \E inv \in BagToSet(runs) :
         \/ get_rhinocompute_version_details(inv)
         \/ get_installed_rhino_plugins(inv)
         \/ get_installed_grasshopper_plugins(inv)
         \/ read_grasshopper_inputs_outputs(inv)
         \/ run_grasshopper_tool_begin(inv)
         \/ run_grasshopper_tool_add_parameter(inv)
         \/ run_grasshopper_tool_evaluate(inv)
         \/ run_grasshopper_tool_decode(inv)
         \/ run_grasshopper_tool_create_file_path(inv)
         \/ run_grasshopper_tool_save(inv)
         \/ run_wave_pattern_from_surface_begin(inv)
         \/ run_wave_pattern_from_surface_read(inv)
         \/ run_wave_pattern_from_surface_add_parameter(inv)
         \/ run_wave_pattern_from_surface_evaluate(inv)
         \/ run_wave_pattern_from_surface_decode(inv)
         \/ run_wave_pattern_from_surface_create_file_path(inv)
         \/ run_wave_pattern_from_surface_save(inv)

SpecRhino == RhinoInit /\ [][RhinoNext]_vars

----------------------------------------------------------------------------
(* The weather server: one tool invocation *)

WeatherInit ==
    /\ w = IdleWeather
    /\ runs = [i \in {IdleRun} |-> MaxRuns]
    /\ now = 0
    /\ disk = BaseFiles
    /\ outputsDir = FALSE
    /\ writes = EmptyBag
    /\ dec = IdleDecode
    /\ sv = IdleSave
    /\ ui = IdleUi

WeatherNext ==
    \/ get_forecast_points
    \/ get_forecast_forecast
    \/ get_current_weather_points
    \/ get_current_weather_stations
    \/ get_current_weather_observation
    \/ sampling_analyze_weather_trends_points
    \/ sampling_analyze_weather_trends_forecast
    \/ sampling_analyze_weather_trends_sample

SpecWeather == WeatherInit /\ [][WeatherNext]_vars

----------------------------------------------------------------------------
(* helpers/helpers.py: decode_gh_output                                     *)
(* A Python string is the sequence of its characters.  The characters are  *)
(* the double quote, the dot, one digit, one letter, and two tokens that    *)
(* each stand for a whole JSON text: of an encoded rhino3dm object, and of  *)
(* a JSON object that is no encoded rhino3dm object.                        *)

Quote == "\""
Dot == "."
Digit == "1"
Letter == "a"
GeometryText == "{geometry}"
ObjectText == "{object}"
Chars == {Quote, Dot, Digit, Letter, GeometryText, ObjectText}

Strings(n) == UNION {[1..k -> Chars] : k \in 0..n}

\* A number: the type the conversion gave it and the text it was read from
Num(type, s) == <<type, s>>

\* isinstance(data, str)
isinstance_str(data) == data[1] = "str"

\* s.startswith(c), s.endswith(c), s[1:-1], c in s
startswith(s, c) == Len(s) >= 1 /\ s[1] = c
endswith(s, c) == Len(s) >= 1 /\ s[Len(s)] = c
slice_1_m1(s) == SubSeq(s, 2, Len(s) - 1)
contains(s, c) == \E i \in 1..Len(s) : s[i] = c

\* What a library call gives: a value, or an exception
Value(v) == [raised |-> FALSE, value |-> v]
Exception == [raised |-> TRUE, value |-> <<>>]

IsDigits(s) == Len(s) >= 1 /\ \A i \in 1..Len(s) : s[i] = Digit

\* The text is digits with one dot among them
IsDotted(s) ==
    /\ Cardinality({i \in 1..Len(s) : s[i] = Dot}) = 1
    /\ \A i \in 1..Len(s) : s[i] \in {Dot, Digit}

\* json.loads(data): a JSON number has digits on both sides of its dot, a
\* JSON string is enclosed in quotes and has no bare quote inside; anything
\* but a str (or bytes) is a TypeError.
json_loads(data) ==
    IF ~isinstance_str(data) THEN Exception
    ELSE LET s == data[2] IN
         CASE IsDigits(s) -> Value(Num("int", s))
           [] IsDotted(s) /\ s[1] = Digit /\ s[Len(s)] = Digit ->
                Value(Num("float", s))
           [] /\ Len(s) >= 2 /\ s[1] = Quote /\ s[Len(s)] = Quote
              /\ \A i \in 2..(Len(s) - 1) : s[i] \in {Dot, Digit, Letter} ->
                Value(Str(slice_1_m1(s)))
           [] s = <<GeometryText>> -> Value(<<"dict", GeometryText>>)
           [] s = <<ObjectText>> -> Value(<<"dict", ObjectText>>)
           [] OTHER -> Exception

\* rhino3dm.CommonObject.Decode(v): the outcomes it can have.  The dict of an
\* encoded object gives the object; another dict gives None or an exception
\* (a missing key); anything but a dict is an exception.
Decode(v) ==
    CASE v = <<"dict", GeometryText>> -> {Value(<<"object", GeometryText>>)}
      [] v = <<"dict", ObjectText>> -> {Value(PyNone), Exception}
      [] OTHER -> {Exception}

\* float(s): digits with one dot, a digit on at least one side of it
float(s) ==
    IF IsDotted(s) /\ Len(s) >= 2 THEN Value(Num("float", s)) ELSE Exception

\* int(s)
int(s) == IF IsDigits(s) THEN Value(Num("int", s)) ELSE Exception

\* Lines 35-36: data[1:-1] if data is a str that starts and ends with a quote
strip_quotes(data) ==
    IF isinstance_str(data) /\ startswith(data[2], Quote)
                            /\ endswith(data[2], Quote)
    THEN Str(slice_1_m1(data[2]))
    ELSE data

\* Lines 38-46, the geometry guess: each outcome of Decode(json.loads(data))
geometry_guess(data) ==
    IF json_loads(data).raised THEN {Exception}
    ELSE Decode(json_loads(data).value)

\* Lines 48-56, the number guess; '.' in data is a TypeError unless data is
\* a str
number_guess(data) ==
    IF ~isinstance_str(data) THEN Exception
    ELSE IF contains(data[2], Dot) THEN float(data[2]) ELSE int(data[2])

\* The items of a branch: dicts with a 'data' key, and one without
Item(data) == [k \in {"type", "data"} |-> IF k = "data" THEN data
                                          ELSE Str(<<Letter>>)]
NoDataItem == [k \in {"type"} |-> Str(<<Letter>>)]

\* 'data' of an item from the response: any string, a number, or null
Datas(n) == {Str(s) : s \in Strings(n)} \cup {Num("int", <<Digit>>), PyNone}

\* Data of each kind, for the branches of more than one item
SampleDatas ==
    {Str(<<GeometryText>>), Str(<<Quote, Digit, Quote>>),
     Str(<<Digit, Dot, Digit>>), Str(<<Letter>>), Str(<<Quote>>), PyNone}

Branches ==
    {<<Item(d)>> : d \in Datas(MaxLen)} \cup
    UNION {[1..k -> {Item(d) : d \in SampleDatas} \cup {NoDataItem}] :
           k \in 0..MaxItems}

\* output['values'][0]['InnerTree']: the branches by their path
TreePath == "{0}"
OtherBranch == <<Item(Str(<<Letter, Letter>>))>>
InnerTrees ==
    {[p \in {TreePath} |-> b] : b \in Branches} \cup
    {[p \in {TreePath, "{1}"} |-> IF p = TreePath THEN b ELSE OtherBranch] :
     b \in Branches} \cup
    {[p \in {"{1}"} |-> OtherBranch]}
Outputs == {[values |-> <<[InnerTree |-> t]>>] : t \in InnerTrees}

\* The outcome of the guesses for one item
Guesses(geometry, number, text) ==
    [geometry |-> geometry, number |-> number, text |-> text]

\* Line 30: the branch of tree_path, a KeyError if the tree has no such path
decode_gh_output_begin ==
    /\ dec.pc = "called"
    /\ LET tree == dec.output.values[1].InnerTree IN
       IF dec.tree_path \in DOMAIN tree
       THEN dec' = [dec EXCEPT !.pc = "loop", !.branch = tree[dec.tree_path]]
       ELSE dec' = [dec EXCEPT !.pc = "raised"]
    /\ UNCHANGED <<rhinoVars, w, sv, ui>>

decode_gh_output_item_no_continue ==
    /\ dec.pc = "loop"
    /\ dec.n < Len(dec.branch)
    /\ LET item == dec.branch[dec.n + 1] IN
       IF "data" \notin DOMAIN item
       THEN dec' = [dec EXCEPT !.pc = "raised"]
       ELSE LET data == strip_quotes(item["data"])
                num == number_guess(data)
            IN \E obj \in geometry_guess(data) :
                 IF ~obj.raised /\ obj.value # PyNone
                 THEN dec' = [dec EXCEPT
                        !.n = @ + 1,
                        !.results = Append(Append(@, obj.value), data),
                        !.guesses = Append(@, Guesses("object", "untried", FALSE))]
                 ELSE LET g == IF obj.raised THEN "raised" ELSE "None" IN
                      IF ~num.raised
                      THEN dec' = [dec EXCEPT
                             !.n = @ + 1,
                             !.results = Append(@, num.value),
                             !.guesses = Append(@, Guesses(g, "number", FALSE))]
                      ELSE dec' = [dec EXCEPT
                             !.n = @ + 1,
                             !.results = Append(@, data),
                             !.guesses = Append(@, Guesses(g, "raised", TRUE))]
    /\ UNCHANGED <<rhinoVars, w, sv, ui>>

\* Lines 32-58, one round of the loop: item['data'] (a KeyError if the item
\* has none), the quotes, then the geometry guess, the number guess and the
\* text, each 'continue' ending the round.
decode_gh_output_item ==
    /\ dec.pc = "loop"
    /\ dec.n < Len(dec.branch)
    /\ LET item == dec.branch[dec.n + 1] IN
       IF "data" \notin DOMAIN item
       THEN dec' = [dec EXCEPT !.pc = "raised"]
       ELSE LET data == strip_quotes(item["data"])
                num == number_guess(data)
            IN \E obj \in geometry_guess(data) :
                 IF ~obj.raised /\ obj.value # PyNone
                 THEN dec' = [dec EXCEPT
                        !.n = @ + 1,
                        !.results = Append(@, obj.value),
                        !.guesses = Append(@, Guesses("object", "untried", FALSE))]
                 ELSE LET g == IF obj.raised THEN "raised" ELSE "None" IN
                      IF ~num.raised
                      THEN dec' = [dec EXCEPT
                             !.n = @ + 1,
                             !.results = Append(@, num.value),
                             !.guesses = Append(@, Guesses(g, "number", FALSE))]
                      ELSE dec' = [dec EXCEPT
                             !.n = @ + 1,
                             !.results = Append(@, data),
                             !.guesses = Append(@, Guesses(g, "raised", TRUE))]
    /\ UNCHANGED <<rhinoVars, w, sv, ui>>

\* Line 59: return results
decode_gh_output_return ==
    /\ dec.pc = "loop"
    /\ dec.n = Len(dec.branch)
    /\ dec' = [dec EXCEPT !.pc = "returned"]
    /\ UNCHANGED <<rhinoVars, w, sv, ui>>

\* One call decode_gh_output(output), as the tools make it
DecodeInit ==
    /\ runs = [i \in {IdleRun} |-> MaxRuns]
    /\ now = 0
    /\ disk = BaseFiles
    /\ outputsDir = FALSE
    /\ writes = EmptyBag
    /\ w = IdleWeather
    /\ sv = IdleSave
    /\ ui = IdleUi
    /\ \E output \in Outputs :
         dec = [pc |-> "called", output |-> output, tree_path |-> TreePath,
                branch |-> <<>>, n |-> 0, results |-> <<>>, guesses |-> <<>>]

DecodeNext ==
    \/ decode_gh_output_begin
    \/ decode_gh_output_item
    \/ decode_gh_output_return

SpecDecode == DecodeInit /\ [][DecodeNext]_vars

----------------------------------------------------------------------------
(* helpers/helpers.py: save_3dm_file                                        *)
(* An object is known by its class.  decode_gh_output gives rhino3dm        *)
(* objects, numbers and strings; a NurbsCurve is a Curve, a PointCloud is   *)
(* none of the types the function tests.                                    *)

Classes ==
    {"Curve", "NurbsCurve", "Point", "Surface", "Mesh", "Brep", "SubD",
     "PointCloud", "int", "str"}

\* isinstance(obj, rhino3dm.<type>)
isinstance(obj, type) == obj = type \/ (obj = "NurbsCurve" /\ type = "Curve")

ObjectLists == UNION {[1..k -> Classes] : k \in 0..MaxObjects}

\* The methods of model.Objects the function calls
AddMethods ==
    {"AddCurve", "AddPoint", "AddSurface", "AddMesh", "AddBrep", "Add",
     "AddSubD"}

\* The state of one round of the loop: the add calls made for the object,
\* how often they added it, and whether 'continue' ended the round
Round == [calls |-> <<>>, added |-> 0, continued |-> FALSE]

Call(method, ok) == [method |-> method, ok |-> ok]

try_add_no_continue(round, obj, type, method, raises) ==
    IF round.continued \/ ~isinstance(obj, type) THEN round
    ELSE IF method \in raises
    THEN [round EXCEPT !.calls = Append(@, Call(method, FALSE))]
    ELSE [round EXCEPT !.calls = Append(@, Call(method, TRUE)),
                       !.added = @ + 1]

\* One try block: if isinstance(obj, type), call the add method; 'continue'
\* when it returned, go on to the next block when it raised.  A block after
\* a 'continue' is not run.
try_add(round, obj, type, method, raises) ==
    IF round.continued \/ ~isinstance(obj, type) THEN round
    ELSE IF method \in raises
    THEN [round EXCEPT !.calls = Append(@, Call(method, FALSE))]
    ELSE [round EXCEPT !.calls = Append(@, Call(method, TRUE)),
                       !.added = @ + 1, !.continued = TRUE]

\* Lines 66-114: the seven try blocks in their order.  When rhino3dm has no
\* SubD the sixth block raises AttributeError in its test and the seventh
\* stops at hasattr; no object is a SubD then.
try_blocks(obj, raises) ==
    LET curve   == try_add(Round,   obj, "Curve",   "AddCurve",   raises)
        point   == try_add(curve,   obj, "Point",   "AddPoint",   raises)
        surface == try_add(point,   obj, "Surface", "AddSurface", raises)
        mesh    == try_add(surface, obj, "Mesh",    "AddMesh",    raises)
        brep    == try_add(mesh,    obj, "Brep",    "AddBrep",    raises)
        subs    == try_add(brep,    obj, "SubD",    "Add",        raises)
        subd    == try_add(subs,    obj, "SubD",    "AddSubD",    raises)
    IN subd

\* Line 64: model = rhino3dm.File3dm()
save_3dm_file_begin ==
    /\ sv.pc = "called"
    /\ sv' = [sv EXCEPT !.pc = "loop"]
    /\ UNCHANGED <<rhinoVars, w, dec, ui>>

\* Lines 65-114, one round of the loop; each add call returns or raises
save_3dm_file_object ==
    /\ sv.pc = "loop"
    /\ sv.n < Len(sv.objects)
    /\ \E raises \in SUBSET AddMethods :
         LET round == try_blocks(sv.objects[sv.n + 1], raises) IN
         sv' = [sv EXCEPT
                  !.n = @ + 1,
                  !.calls = Append(@, round.calls),
                  !.table = @ \o [j \in 1..round.added |-> sv.n + 1]]
    /\ UNCHANGED <<rhinoVars, w, dec, ui>>

\* Line 116: model.Write(filename), which returns or raises
save_3dm_file_write ==
    /\ sv.pc = "loop"
    /\ sv.n = Len(sv.objects)
    /\ \E ok \in BOOLEAN :
         sv' = [sv EXCEPT !.pc = IF ok THEN "returned" ELSE "raised",
                          !.written = Append(@, sv.table)]
    /\ UNCHANGED <<rhinoVars, w, dec, ui>>

\* One call save_3dm_file(decoded, output_path), as the tools make it
SaveInit ==
    /\ runs = [i \in {IdleRun} |-> MaxRuns]
    /\ now = 0
    /\ disk = BaseFiles
    /\ outputsDir = FALSE
    /\ writes = EmptyBag
    /\ w = IdleWeather
    /\ dec = IdleDecode
    /\ ui = IdleUi
    /\ \E objects \in ObjectLists :
         sv = [pc |-> "called", objects |-> objects, n |-> 0,
               calls |-> <<>>, table |-> <<>>, written |-> <<>>]

SaveNext ==
    \/ save_3dm_file_begin
    \/ save_3dm_file_object
    \/ save_3dm_file_write

SpecSave == SaveInit /\ [][SaveNext]_vars

----------------------------------------------------------------------------
(* UI/app.py: the Streamlit script.  Streamlit runs the script from the top *)
(* on every interaction; st.session_state lasts from run to run.  A client  *)
(* is known by the place of its URL in MCP_SERVER_URLS.                     *)

\* MCP_SERVER_URLS: one URL per configured server
ServerUrls == {[i \in 1..n |-> i] : n \in 0..MaxServers}

\* The tools a server can list: the j-th tool of server i
Tool(i, j) == <<i, j>>
ToolLists(i) == {<<>>, <<Tool(i, 1)>>, <<Tool(i, 1), Tool(i, 2)>>}

\* 'mcp_tools' of st.session_state: absent, or a list of tools
NoTools == [set |-> FALSE, tools |-> <<>>]

\* A call made inside a with block, and the contexts entered while it ran
Made(op, client, entered) == [op |-> op, client |-> client, entered |-> entered]

\* Where a loop over the clients goes after k rounds
LoopPc(k, n, again, after) == IF k < n THEN again ELSE after

\* with ExitStack() as stack: an empty stack, nothing entered or exited yet
WithExitStack(u, block) ==
    [u EXCEPT !.block = block, !.stack = <<>>, !.entered = <<>>,
              !.exited = <<>>, !.calls = <<>>, !.exc = FALSE]

\* stack.enter_context(client): client.__enter__() returned, the client's
\* __exit__ is pushed on the stack
enter_context(u, client) ==
    [u EXCEPT !.stack = Append(@, client), !.entered = Append(@, client)]

\* ExitStack.__exit__, one callback: the context entered last is exited; an
\* exception of its __exit__ replaces the pending one and the unwinding
\* goes on
pop_exit(u, raises) ==
    [u EXCEPT !.stack = SubSeq(@, 1, Len(@) - 1),
              !.exited = Append(@, u.stack[Len(u.stack)]),
              !.exc = @ \/ raises]

\* Line 37: if "mcp_tools" not in st.session_state, open the with block
mcp_tools_check ==
    /\ ui.pc = "start"
    /\ IF ui.session.set
       THEN ui' = [ui EXCEPT !.pc = "chat_input"]
       ELSE ui' = [WithExitStack(ui, "tools") EXCEPT
                     !.pc = LoopPc(0, Len(ui.urls), "tools_enter",
                                   LoopPc(0, Len(ui.urls), "tools_list",
                                          "tools_assign")),
                     !.listed = <<>>, !.all_tools = <<>>]
    /\ UNCHANGED <<rhinoVars, w, dec, sv>>

mcp_tools_enter_context_no_unwind ==
    /\ ui.pc = "tools_enter"
    /\ LET client == Len(ui.entered) + 1 IN
       \E ok \in BOOLEAN :
         IF ok
         THEN ui' = [enter_context(ui, client) EXCEPT
                       !.pc = LoopPc(client, Len(ui.urls), "tools_enter",
                                     "tools_list")]
         ELSE ui' = [ui EXCEPT !.pc = "start", !.block = "none", !.exc = TRUE]
    /\ UNCHANGED <<rhinoVars, w, dec, sv>>

\* Lines 41-42: enter the context of the next client; an exception of
\* __enter__ ends the with block
mcp_tools_enter_context ==
    /\ ui.pc = "tools_enter"
    /\ LET client == Len(ui.entered) + 1 IN
       \E ok \in BOOLEAN :
         IF ok
         THEN ui' = [enter_context(ui, client) EXCEPT
                       !.pc = LoopPc(client, Len(ui.urls), "tools_enter",
                                     "tools_list")]
         ELSE ui' = [ui EXCEPT !.pc = "tools_exit", !.exc = TRUE]
    /\ UNCHANGED <<rhinoVars, w, dec, sv>>

\* Lines 45-51: list the tools of the next client and extend all_tools
mcp_tools_list_tools_sync ==
    /\ ui.pc = "tools_list"
    /\ LET client == Len(ui.listed) + 1
           made == Made("list_tools_sync", client, ui.stack)
       IN \/ \E tools \in ToolLists(client) :
               ui' = [ui EXCEPT
                        !.calls = Append(@, made),
                        !.listed = Append(@, tools),
                        !.all_tools = @ \o tools,
                        !.pc = LoopPc(client, Len(ui.urls), "tools_list",
                                      "tools_assign")]
          \/ ui' = [ui EXCEPT !.calls = Append(@, made),
                              !.pc = "tools_exit", !.exc = TRUE]
    /\ UNCHANGED <<rhinoVars, w, dec, sv>>

\* Line 53: st.session_state.mcp_tools = all_tools
mcp_tools_assign ==
    /\ ui.pc = "tools_assign"
    /\ ui' = [ui EXCEPT !.session = [set |-> TRUE, tools |-> ui.all_tools],
                        !.pc = "tools_exit"]
    /\ UNCHANGED <<rhinoVars, w, dec, sv>>

\* Line 39, the end of the with block: the stack is unwound; an exception
\* ends the run of the script, otherwise the script goes on
mcp_tools_exit ==
    /\ ui.pc = "tools_exit"
    /\ IF ui.stack # <<>>
       THEN \E raises \in BOOLEAN : ui' = pop_exit(ui, raises)
       ELSE ui' = [ui EXCEPT !.block = "none",
                             !.pc = IF ui.exc THEN "start" ELSE "chat_input"]
    /\ UNCHANGED <<rhinoVars, w, dec, sv>>

\* Lines 147, 160-161: without a prompt the run ends; with one the with
\* block of the chat handler opens
chat_input ==
    /\ ui.pc = "chat_input"
    /\ \E prompt \in BOOLEAN :
         IF prompt
         THEN ui' = [WithExitStack(ui, "chat") EXCEPT
                       !.pc = LoopPc(0, Len(ui.urls), "chat_enter",
                                     "chat_agent")]
         ELSE ui' = [ui EXCEPT !.pc = "start"]
    /\ UNCHANGED <<rhinoVars, w, dec, sv>>

\* Lines 163-164: enter the context of the next client
chat_enter_context ==
    /\ ui.pc = "chat_enter"
    /\ LET client == Len(ui.entered) + 1 IN
       \E ok \in BOOLEAN :
         IF ok
         THEN ui' = [enter_context(ui, client) EXCEPT
                       !.pc = LoopPc(client, Len(ui.urls), "chat_enter",
                                     "chat_agent")]
         ELSE ui' = [ui EXCEPT !.pc = "chat_exit", !.exc = TRUE]
    /\ UNCHANGED <<rhinoVars, w, dec, sv>>

\* Line 166: response = st.session_state.agent(prompt)
chat_agent ==
    /\ ui.pc = "chat_agent"
    /\ \E ok \in BOOLEAN :
         ui' = [ui EXCEPT !.calls = Append(@, Made("agent", 0, ui.stack)),
                          !.pc = "chat_exit", !.exc = ~ok]
    /\ UNCHANGED <<rhinoVars, w, dec, sv>>

\* Line 161, the end of the with block; the run ends after the handler or
\* with the exception
chat_exit ==
    /\ ui.pc = "chat_exit"
    /\ IF ui.stack # <<>>
       THEN \E raises \in BOOLEAN : ui' = pop_exit(ui, raises)
       ELSE ui' = [ui EXCEPT !.block = "none", !.pc = "start"]
    /\ UNCHANGED <<rhinoVars, w, dec, sv>>

\* Lines 30-34: the first run of the script in a session, one client per URL
UiInit ==
    /\ runs = [i \in {IdleRun} |-> MaxRuns]
    /\ now = 0
    /\ disk = BaseFiles
    /\ outputsDir = FALSE
    /\ writes = EmptyBag
    /\ w = IdleWeather
    /\ dec = IdleDecode
    /\ sv = IdleSave
    /\ \E urls \in ServerUrls :
         ui = [pc |-> "start", urls |-> urls, session |-> NoTools,
               block |-> "none", stack |-> <<>>, entered |-> <<>>,
               exited |-> <<>>, calls |-> <<>>, listed |-> <<>>,
               all_tools |-> <<>>, exc |-> FALSE]

UiNext ==
    \/ mcp_tools_check
    \/ mcp_tools_enter_context
    \/ mcp_tools_list_tools_sync
    \/ mcp_tools_assign
    \/ mcp_tools_exit
    \/ chat_input
    \/ chat_enter_context
    \/ chat_agent
    \/ chat_exit

SpecUi == UiInit /\ [][UiNext]_vars

----------------------------------------------------------------------------
(* Properties *)

Invocations == BagToSet(runs)

GetTools == {"get_rhinocompute_version_details", "get_installed_rhino_plugins",
             "get_installed_grasshopper_plugins"}

BodyKey(tool) == IF tool = "get_rhinocompute_version_details" THEN "version_info"
                 ELSE "plugins"

\* C1: the three GET tools always return a dict and never raise: when the
\* request or the JSON parsing raised, the dict has the single key "error" with
\* the prefix "Failed to contact Rhino.Compute: "; otherwise it has "status" =
\* "success" and the parsed body under "version_info" / "plugins", and no "error".
C1_GetToolsReturnDict ==
    \A inv \in Invocations :
       (inv.tool \in GetTools /\ inv.pc = "done") =>
          /\ "raised" \notin DOMAIN inv.result
          /\ IF inv.raised # ""
             THEN /\ DOMAIN inv.result = {"error"}
                  /\ inv.result.error = <<"Failed to contact Rhino.Compute: ", inv.raised>>
             ELSE /\ DOMAIN inv.result = {"status", BodyKey(inv.tool)}
                  /\ inv.result.status = "success"
                  /\ inv.result[BodyKey(inv.tool)] = inv.body.json

C1_Witness ==
    \E a, b \in Invocations :
       /\ a.tool = "get_rhinocompute_version_details" /\ a.pc = "done"
       /\ a.raised = "JSONDecodeError"
       /\ b.tool = "get_installed_grasshopper_plugins" /\ b.pc = "done"
       /\ b.raised = "" /\ b.result.plugins = Json("bodyB")

\* C2: every weather tool that calls the NWS API returns a string for every
\* outcome of its requests; no exception escapes the tool.
C2_WeatherToolsReturnText ==
    w.pc = "done" => w.result.kind = "return"

FullTrace(inv) ==
    [i \in 1..Len(inv.inputs) |-> "add_parameter"]
    \o <<"EvaluateDefinition", "decode_gh_output", "create_file_path", "save_3dm_file">>

IsPrefix(s, t) == Len(s) <= Len(t) /\ s = SubSeq(t, 1, Len(s))

\* C3: run_grasshopper_tool makes its calls in the order add_parameter (once
\* per input), EvaluateDefinition, decode_gh_output, create_file_path,
\* save_3dm_file; it returns the success dict only after all of them completed
\* and the file was written to output_file; when a call raises, no later call
\* is made and the result is a dict with the single key "error"; success and
\* error never come together.
C3_RunGrasshopperOrder ==
    \A inv \in Invocations :
       inv.tool = "run_grasshopper_tool" =>
          /\ IsPrefix(inv.trace, FullTrace(inv))
          /\ inv.pc = "done" =>
             /\ ("status" \in DOMAIN inv.result) # ("error" \in DOMAIN inv.result)
             /\ "status" \in DOMAIN inv.result =>
                /\ DOMAIN inv.result = {"status", "pointer", "output_file"}
                /\ inv.result.status = "success"
                /\ inv.result.pointer = inv.pointer
                /\ inv.raised = ""
                /\ inv.trace = FullTrace(inv)
                /\ [i \in 1..Len(inv.gh_inputs) |-> inv.gh_inputs[i].ParamName] = inv.inputs
                /\ inv.evals = <<[pointer |-> inv.pointer, gh_inputs |-> inv.gh_inputs]>>
                /\ CopiesIn(inv.result.output_file, writes) >= 1
             /\ "error" \in DOMAIN inv.result =>
                /\ DOMAIN inv.result = {"error"}
                /\ inv.raised = "" => inv.trace = <<>>
                /\ inv.raised # "" =>
                   /\ inv.result.error = <<"Failed to run Grasshopper definition: ", inv.raised>>
                   /\ inv.trace # <<>>
                   /\ inv.trace[Len(inv.trace)] = inv.raised

C3_Witness ==
    \E a, b \in Invocations :
       /\ a.tool = "run_grasshopper_tool" /\ a.pc = "done"
       /\ Len(a.inputs) = MaxInputs /\ "status" \in DOMAIN a.result
       /\ b.tool = "run_grasshopper_tool" /\ b.pc = "done"
       /\ b.raised = "decode_gh_output"

PointerTools == {"read_grasshopper_inputs_outputs", "run_grasshopper_tool"}

\* An invocation that took the step from the current state to the next one
Stepped(inv) == CopiesIn(inv, runs') > CopiesIn(inv, runs)

\* C4: when the resolved pointer does not exist, read_grasshopper_inputs_outputs
\* and run_grasshopper_tool return {"error": "Grasshopper file not found:
\* '<path>'"} at once and with no other effect: no call to Rhino.Compute, the
\* outputs directory is not created and no file is written.
C4_MissingPointerNoEffect ==
    [][\A inv \in BagToSet(runs') :
          (Stepped(inv) /\ inv.tool \in PointerTools /\ inv.pointer \notin disk) =>
             /\ inv.pointer.abs
             /\ inv.pc = "done"
             /\ inv.result = [error |-> <<"Grasshopper file not found: '", inv.pointer, "'">>]
             /\ inv.trace = <<>>
             /\ inv.evals = <<>>
             /\ outputsDir' = outputsDir
             /\ writes' = writes]_vars

C4_Witness ==
    \E a, b \in Invocations :
       /\ a.tool = "read_grasshopper_inputs_outputs" /\ a.pc = "done"
       /\ a.pointer = GhGone
       /\ b.tool = "run_grasshopper_tool" /\ b.pc = "done"
       /\ b.pointer = GhGone /\ "error" \in DOMAIN b.result

\* C5: on success run_wave_pattern_from_surface returns a dict with the three
\* keys "status" = "success", "pointer" = the path of the Grasshopper
\* definition that was evaluated, and "output_file" = the path of the saved file.
C5_WaveSuccessHasPointer ==
    \A inv \in Invocations :
       (inv.tool = "run_wave_pattern_from_surface" /\ inv.pc = "done"
           /\ "status" \in DOMAIN inv.result) =>
          /\ DOMAIN inv.result = {"status", "pointer", "output_file"}
          /\ inv.result.status = "success"
          /\ inv.result.pointer = inv.evals[1].pointer
          /\ inv.result.output_file = inv.output_path

\* C6: run_wave_pattern_from_surface checks, in this order, that the Rhino file
\* exists, that assets/WavePatternFromSurface.gh exists, and that the model
\* was read and has an object; the first check that fails returns its own
\* error dict, and then EvaluateDefinition is never called and no file is
\* written; when all pass, the first object of the model is sent as the single
\* input named "surface".
C6_WavePreconditions ==
    \A inv \in Invocations :
       inv.tool = "run_wave_pattern_from_surface" =>
          LET unread == inv.model.isNone \/ Len(inv.model.Objects) = 0
              stopped == /\ inv.pc = "done"
                         /\ inv.evals = <<>>
                         /\ inv.output_path = NoOutput
                         /\ CopiesIn(inv.output_path, writes) = 0 IN
          /\ inv.pointer \notin disk =>
                /\ stopped
                /\ inv.trace = <<>>
                /\ inv.result = [error |-> <<"Rhino file not found: '", inv.pointer, "'">>]
          /\ (inv.pointer \in disk /\ WaveGhPath \notin disk) =>
                /\ stopped
                /\ inv.trace = <<>>
                /\ inv.result = [error |-> <<"Grasshopper file not found at '", WaveGhPath, "'">>]
          /\ (inv.trace # <<>> /\ inv.raised # "File3dm.Read" /\ unread) =>
                /\ stopped
                /\ inv.trace = <<"File3dm.Read">>
                /\ inv.result = [error |-> <<"Could not read geometry from '", inv.pointer, "'">>]
          /\ inv.trace # <<>> => inv.trace[1] = "File3dm.Read"
          /\ inv.evals # <<>> =>
                /\ ~unread
                /\ Len(inv.evals) = 1
                /\ inv.evals[1].pointer = WaveGhPath
                /\ Len(inv.evals[1].gh_inputs) = 1
                /\ inv.evals[1].gh_inputs[1].ParamName = "surface"
                /\ inv.evals[1].gh_inputs[1].items = <<Json(inv.model.Objects[1])>>

C6_Witness ==
    \E a, b \in Invocations :
       /\ a.tool = "run_wave_pattern_from_surface" /\ a.pc = "done"
       /\ Len(a.model.Objects) = 2 /\ Len(a.evals) = 1
       /\ b.tool = "run_wave_pattern_from_surface" /\ b.pc = "done"
       /\ ~b.model.isNone /\ b.model.Objects = <<>> /\ b.trace = <<"File3dm.Read">>

\* C7: create_file_path returns a unique path, so no run writes over the
\* output file of another run: no path is written twice.
C7_NoOutputWrittenTwice ==
    \A path \in BagToSet(writes) : CopiesIn(path, writes) <= 1

\* C8: with the pointer file present, read_grasshopper_inputs_outputs returns
\* exactly the keys status, path, description, inputs, outputs, icon when /io
\* answered a JSON object: status "success", path the resolved pointer, and
\* each other key the body's Description / Inputs / Outputs / Icon value when
\* present and else "Grasshopper definition" / [] / [] / None; when the
\* request or the parsing raised, the result has the single key "error".
C8_ReadIoReshapes ==
    \A inv \in Invocations :
       (inv.tool = "read_grasshopper_inputs_outputs" /\ inv.pc = "done"
           /\ inv.pointer \in disk) =>
          IF inv.raised = ""
          THEN /\ DOMAIN inv.result =
                     {"status", "path", "description", "inputs", "outputs", "icon"}
               /\ inv.result.status = "success"
               /\ inv.result.path = inv.pointer
               /\ inv.result.path.abs
               /\ inv.result.description =
                     IF "Description" \in DOMAIN inv.body THEN inv.body["Description"]
                     ELSE <<"str", "Grasshopper definition">>
               /\ inv.result.inputs =
                     IF "Inputs" \in DOMAIN inv.body THEN inv.body["Inputs"] ELSE <<"list">>
               /\ inv.result.outputs =
                     IF "Outputs" \in DOMAIN inv.body THEN inv.body["Outputs"] ELSE <<"list">>
               /\ inv.result.icon =
                     IF "Icon" \in DOMAIN inv.body THEN inv.body["Icon"] ELSE <<"None">>
          ELSE DOMAIN inv.result = {"error"}

C8_Witness ==
    \E a, b \in Invocations :
       /\ a.tool = "read_grasshopper_inputs_outputs" /\ a.pc = "done"
       /\ a.raised = "" /\ DOMAIN a.body = {"Description", "Icon"}
       /\ b.tool = "read_grasshopper_inputs_outputs" /\ b.pc = "done"
       /\ b.raised = "AttributeError"

\* A response make_nws_request turns into a non-empty dict
Useful(response) ==
    /\ response.error = ""
    /\ response.status_code = 200
    /\ response.is_json
    /\ DOMAIN response.body # {}

\* The f-string of one period has 13 parts: 7 literal pieces and 6 fields.
BlockLen == 13

\* C9: when both requests succeed, get_forecast reports min(n, 10) of the n
\* periods received: the first ten (or all), in the order received, one block
\* each, joined by "\n---\n"; no later period appears, and zero periods give
\* the empty string.
C9_ForecastFirstTen ==
    (/\ w.tool = "get_forecast" /\ w.pc = "done" /\ Len(w.got) = 2
     /\ Useful(w.got[2]) /\ "properties" \in DOMAIN w.got[2].body) =>
       LET periods == w.got[2].body.properties.periods
           n == Len(periods)
           k == IF n < 10 THEN n ELSE 10
           text == w.result.text IN
       /\ w.result.kind = "return"
       /\ n = 0 => text = <<>>
       /\ Len(text) = IF k = 0 THEN 0 ELSE k * BlockLen + (k - 1)
       /\ Cardinality({j \in 1..Len(text) : text[j] = "\n---\n"}) =
             IF k = 0 THEN 0 ELSE k - 1
       /\ \A i \in 1..k :
             LET at == (i - 1) * (BlockLen + 1) IN
             /\ text[at + 1] = "\n"
             /\ text[at + 2] = periods[i].name
             /\ text[at + 3] = ":\nTemperature: "
             /\ text[at + BlockLen] = "\n"
             /\ i < k => text[at + BlockLen + 1] = "\n---\n"

C9_Witness ==
    /\ w.tool = "get_forecast" /\ w.pc = "done" /\ Len(w.got) = 2
    /\ Useful(w.got[2]) /\ "properties" \in DOMAIN w.got[2].body
    /\ Len(w.got[2].body.properties.periods) = 11
    /\ w.got[2].body.properties.periods[1].name = "Tonight"
    /\ w.got[2].body.properties.periods[2].name = "Today"
    /\ Len(w.result.text) = 10 * BlockLen + 9

Stages(tool) ==
    IF tool = "get_forecast" THEN <<"points", "forecast">>
    ELSE <<"points", "stations", "observation">>

StageMessage(tool, i) ==
    IF tool = "get_forecast"
    THEN <<"Unable to fetch forecast data for this location.",
           "Unable to fetch detailed forecast.">>[i]
    ELSE <<"Unable to fetch weather data for this location.",
           "Unable to find nearby weather stations.",
           "Unable to fetch current observations.">>[i]

\* C10: get_forecast requests points then forecast, get_current_weather
\* requests points, then stations, then the latest observation of the first
\* station; each request is sent only after the previous one returned status
\* 200 with a non-empty body; a stage that returns a non-200 status (or, for
\* stations, no features) ends the call with that stage's message and no later
\* request is sent.
C10_ChainedRequests ==
    w.tool \in {"get_forecast", "get_current_weather"} =>
       /\ Len(w.got) = Len(w.sent)
       /\ [i \in 1..Len(w.sent) |-> w.sent[i].stage] =
             SubSeq(Stages(w.tool), 1, Len(w.sent))
       /\ \A i \in 2..Len(w.sent) : Useful(w.got[i - 1])
       /\ \A i \in 1..Len(w.got) :
             (w.got[i].error = "" /\ w.got[i].status_code # 200) =>
                /\ w.pc = "done"
                /\ Len(w.sent) = i
                /\ w.result.kind = "return"
                /\ w.result.text = <<StageMessage(w.tool, i)>>
       /\ (/\ w.tool = "get_current_weather" /\ Len(w.got) >= 2 /\ Useful(w.got[2])
           /\ \/ "features" \notin DOMAIN w.got[2].body
              \/ w.got[2].body.features = <<>>) =>
                /\ w.pc = "done"
                /\ Len(w.sent) = 2
                /\ w.result.kind = "return"
                /\ w.result.text = <<"Unable to find nearby weather stations.">>
       /\ (w.tool = "get_current_weather" /\ Len(w.sent) = 3) =>
             w.sent[3].url = w.got[2].body.features[1].properties.stationIdentifier

C10_Witness ==
    /\ w.tool = "get_current_weather" /\ w.pc = "done"
    /\ Len(w.sent) = 3
    /\ Len(w.got[2].body.features) = 2
    /\ w.got[3].status_code = 500
    /\ w.result.text = <<"Unable to fetch current observations.">>

----------------------------------------------------------------------------
(* decode_gh_output *)

\* Two enclosing double quotes taken off a string that has them
StripPair(data) ==
    IF /\ isinstance_str(data)
       /\ Len(data[2]) >= 2
       /\ data[2][1] = Quote
       /\ data[2][Len(data[2])] = Quote
    THEN Str(SubSeq(data[2], 2, Len(data[2]) - 1))
    ELSE data

\* The objects the data decodes to: it parses as JSON and Decode gives an
\* object that is not None
Objects(data) ==
    IF json_loads(data).raised THEN {}
    ELSE {o.value : o \in {d \in Decode(json_loads(data).value) :
                             ~d.raised /\ d.value # PyNone}}

\* The data is a string that converts with float() when it has a dot and
\* with int() when it has none
Converts(data) ==
    /\ isinstance_str(data)
    /\ IF contains(data[2], Dot) THEN ~float(data[2]).raised
                                 ELSE ~int(data[2]).raised

Number(data) ==
    IF contains(data[2], Dot) THEN float(data[2]).value ELSE int(data[2]).value

\* The result of the cascade for the data left by the stripping
Cascade(data) ==
    IF Objects(data) # {} THEN CHOOSE o \in Objects(data) : TRUE
    ELSE IF Converts(data) THEN Number(data)
    ELSE data

\* The call raises only where it reads the tree or the item, not in a guess
RaisedOutsideGuesses ==
    dec.pc = "raised" =>
        \/ dec.tree_path \notin DOMAIN dec.output.values[1].InnerTree
        \/ /\ dec.n < Len(dec.branch)
           /\ "data" \notin DOMAIN dec.branch[dec.n + 1]

\* A later guess was tried only when every earlier one raised or gave None
LaterGuessOnlyAfterFailure ==
    \A i \in 1..Len(dec.guesses) :
        LET g == dec.guesses[i] IN
        /\ g.number # "untried" => g.geometry \in {"raised", "None"}
        /\ g.text => g.geometry \in {"raised", "None"} /\ g.number = "raised"
        /\ g.geometry = "object" => dec.results[i][1] = "object"
        /\ g.number = "number" => dec.results[i][1] \in {"int", "float"}

\* Every item decoded so far has the result of the cascade, for the given
\* way of stripping the quotes
CascadeHolds(Strip(_)) ==
    /\ Len(dec.results) = dec.n
    /\ \A i \in 1..dec.n :
         dec.results[i] = Cascade(Strip(dec.branch[i]["data"]))
    /\ LaterGuessOnlyAfterFailure
    /\ RaisedOutsideGuesses

\* C11: every item is classified by the cascade geometry, number, text,
\* after one pair of enclosing double quotes is stripped from string data;
\* a later guess is tried only when every earlier one raised or gave None,
\* and no exception of a guess leaves the function.
C11_DecodeCascade == CascadeHolds(StripPair)

\* The cascade of C11 with the quotes stripped as lines 35-36 strip them
\* (a string of one double quote becomes the empty string)
DecodeCascadeAsCoded == CascadeHolds(strip_quotes)

\* What the guesses can make of one item: the object, the number, the data
Candidates(data) ==
    Objects(data)
    \cup (IF number_guess(data).raised THEN {} ELSE {number_guess(data).value})
    \cup {data}

\* C12: the list returned has one result per item of the selected branch,
\* in the order of the branch, the i-th result made of the i-th item only;
\* no item is dropped and none is decoded twice.
C12_OneResultPerItem ==
    dec.pc \in {"loop", "returned"} =>
        /\ dec.branch = dec.output.values[1].InnerTree[dec.tree_path]
        /\ dec.n <= Len(dec.branch)
        /\ Len(dec.results) = dec.n
        /\ Len(dec.guesses) = dec.n
        /\ dec.pc = "returned" => Len(dec.results) = Len(dec.branch)
        /\ \A i \in 1..Len(dec.results) :
             dec.results[i] \in Candidates(strip_quotes(dec.branch[i]["data"]))

C12_Witness ==
    /\ dec.pc = "returned"
    /\ Len(dec.branch) = 2
    /\ dec.results = << <<"object", GeometryText>>, Num("int", <<Digit>>) >>
    /\ dec.branch[2]["data"] = Str(<<Quote, Digit, Quote>>)

----------------------------------------------------------------------------
(* save_3dm_file *)

\* The type tests in their order, each with the add call of its block
TypeOrder ==
    << <<"Curve", "AddCurve">>, <<"Point", "AddPoint">>,
       <<"Surface", "AddSurface">>, <<"Mesh", "AddMesh">>,
       <<"Brep", "AddBrep">>, <<"SubD", "Add">>, <<"SubD", "AddSubD">> >>

\* The blocks whose type test the object passes
Matching(obj) == {k \in 1..Len(TypeOrder) : isinstance(obj, TypeOrder[k][1])}

\* The place of a call's method in the order
BlockOf(call) == CHOOSE k \in 1..Len(TypeOrder) : TypeOrder[k][2] = call.method

\* The calls made for one object follow the order of the matching blocks
\* with none left out, every call before the last one raised, and the
\* calls stop at the first that returned or when no matching block is left
FirstThatReturns(obj, calls) ==
    LET tried == {BlockOf(calls[j]) : j \in 1..Len(calls)} IN
    /\ tried \subseteq Matching(obj)
    /\ \A j \in 1..Len(calls) :
         /\ j < Len(calls) =>
              ~calls[j].ok /\ BlockOf(calls[j]) < BlockOf(calls[j + 1])
         /\ \A k \in Matching(obj) :
              k < BlockOf(calls[j]) => k \in tried
    /\ (calls = <<>> \/ ~calls[Len(calls)].ok) => tried = Matching(obj)

\* How often the object at place i was added to the model
Added(i) == Cardinality({j \in 1..Len(sv.table) : sv.table[j] = i})

\* C13: each object is added at most once, by the first matching type in
\* the order Curve, Point, Surface, Mesh, Brep, SubD whose add call does
\* not raise; a failed add goes on to the next type and never ends the
\* loop; an object of no such type is skipped; and model.Write is called
\* exactly once, after all objects, also for an empty list.
C13_SaveCascade ==
    /\ Len(sv.calls) = sv.n
    /\ \A i \in 1..sv.n :
         /\ FirstThatReturns(sv.objects[i], sv.calls[i])
         /\ Added(i) =
              Cardinality({j \in 1..Len(sv.calls[i]) : sv.calls[i][j].ok})
         /\ Added(i) <= 1
         /\ Matching(sv.objects[i]) = {} => Added(i) = 0
    /\ \A j \in 1..Len(sv.table) :
         j < Len(sv.table) => sv.table[j] < sv.table[j + 1]
    /\ sv.pc \in {"called", "loop"} => sv.written = <<>>
    /\ sv.pc \in {"returned", "raised"} =>
         /\ sv.n = Len(sv.objects)
         /\ sv.written = <<sv.table>>

C13_Witness ==
    /\ sv.pc = "returned"
    /\ sv.objects = <<"SubD", "str">>
    /\ sv.calls = << <<Call("Add", FALSE), Call("AddSubD", TRUE)>>, <<>> >>
    /\ sv.table = <<1>>
    /\ sv.written = << <<1>> >>

----------------------------------------------------------------------------
(* UI/app.py *)

\* The lists of a sequence of lists, one after the other
RECURSIVE Concatenation(_)
Concatenation(lists) ==
    IF lists = <<>> THEN <<>>
    ELSE Head(lists) \o Concatenation(Tail(lists))

\* The elements of a sequence
Range(s) == {s[i] : i \in 1..Len(s)}

\* C14: tools are listed and the agent is invoked only while the contexts
\* of all configured clients are entered, entered in the order of
\* MCP_SERVER_URLS; when a with block has ended, normally or by an
\* exception of entering, listing or the agent, every context that was
\* entered has been exited; and the combined tool list is the concatenation
\* of the servers' tools in server order.
C14_ClientContexts ==
    /\ \A c \in Range(ui.calls) : c.entered = ui.urls
    /\ ui.entered = SubSeq(ui.urls, 1, Len(ui.entered))
    /\ Range(ui.stack) \cup Range(ui.exited) = Range(ui.entered)
    /\ Len(ui.stack) + Len(ui.exited) = Len(ui.entered)
    /\ ui.block = "none" =>
         /\ ui.stack = <<>>
         /\ Range(ui.exited) = Range(ui.entered)
         /\ Cardinality(Range(ui.exited)) = Len(ui.exited)
    /\ ui.block # "none" => Concatenation(ui.listed) = ui.all_tools
    /\ ui.session.set =>
         /\ Len(ui.listed) = Len(ui.urls)
         /\ \A i \in 1..Len(ui.listed) : ui.listed[i] \in ToolLists(i)
         /\ ui.session.tools = Concatenation(ui.listed)

C14_Witness ==
    /\ ui.block = "none"
    /\ ui.exc
    /\ Len(ui.urls) = 2
    /\ ui.calls = <<Made("agent", 0, <<1, 2>>)>>
    /\ ui.exited = <<2, 1>>
    /\ ui.session.tools = <<Tool(1, 1), Tool(2, 1), Tool(2, 2)>>

====
